---- MODULE Spec2Model ----
(***************************************************************************)
(* AhavatFit client: the keyed list renderer renderList (ui.ts) and the    *)
(* cycle phase calculator getDayPhase (cycle.ts).                          *)
(***************************************************************************)
EXTENDS Integers, Sequences, FiniteSets, TLC

(***************************************************************************)
(* Bounds of the model.                                                    *)
(***************************************************************************)
\* number of distinct item ids (ids are 0 .. NumKeys-1; recipe ids are array indices)
NumKeys == 3
\* longest item list handed to renderList
MaxLen == 3
\* longest item list with a repeated key handed to renderList
MaxDupLen == 2

NumEdited == 2

MaxDocLen == 2

MaxNavCalls == 3

MaxPresses == 4

MaxAsks == 3

MaxChunks == 2

MaxMinute == 1

MaxRestarts == 2
Keys == 0 .. (NumKeys - 1)

VARIABLES
    container,      \* children of the list container, in document order
    prevContainer,  \* children before the last operation on the container
    items,          \* item list of the last renderList call
    prevKeys,       \* keys of the item list of the operation before it
    lastOp,         \* last operation on the container
    prevOp,         \* the operation before it
    ops             \* DOM operations performed by the last renderList call

listVars == <<container, prevContainer, items, prevKeys, lastOp, prevOp, ops>>

VARIABLES
    log,            \* the stored cycle log: entries in the key order of the object
    achievements,   \* the stored set of unlocked achievements
    tz,             \* time zone of the browser
    phaseInfo,      \* the last getDayPhase call: its arguments and its result
    lastSave        \* the last saveCycleLogEntry call: its arguments, the log before

cycleVars == <<log, achievements, tz, phaseInfo, lastSave>>

VARIABLES
    settings,           \* the stored cycle settings, Null when the key is absent
    completedWorkouts,  \* the stored list of completed workouts
    corrupt,            \* storage keys whose stored text is not valid JSON
    loaded              \* the last load from storage: the function and its outcome

storeVars == <<settings, completedWorkouts, corrupt, loaded>>

VARIABLES
    doc,            \* the content of workouts.json
    pc,             \* where each fetch of the initial load stands
    workoutsCache,  \* api.ts workoutsCache: Null or <<the workouts>>
    recipesCache,   \* api.ts recipesCache
    programsCache,  \* api.ts programsCache
    requests,       \* number of fetch(url) calls per url
    cacheWrites,    \* number of assignments to workoutsCache
    returned        \* the value each fetch resolved with: Null or <<value>>

fetchVars == <<doc, pc, workoutsCache, recipesCache, programsCache, requests,
               cacheWrites, returned>>

VARIABLES
    navCalls,       \* the navigateTo calls so far: page, state, overlay hidden by it
    overlay,        \* the loading overlay is displayed
    currentPage,    \* globalUIState.currentPage
    initialized,    \* the ...PageInitialized flags of globalUIState
    renderStarts,   \* how often the render function of each page was started
    firstRun        \* the outcome of the first run of each render function

navVars == <<navCalls, overlay, currentPage, initialized, renderStarts, firstRun>>

VARIABLES
    onboardingCompleted,  \* localStorage has ONBOARDING_COMPLETED_KEY
    profileName,          \* the name of the stored user profile, or Null
    modalShown,           \* the onboarding modal is displayed
    listener,             \* the click listener is on the Next button
    nameInput,            \* the characters of the name field
    onboarding,           \* the promise of checkAndShowOnboarding
    presses,              \* number of presses of Next
    lastPress             \* the name field at the last press: "empty" or "name"

onbVars == <<onboardingCompleted, profileName, modalShown, listener, nameInput,
             onboarding, presses, lastPress>>

VARIABLES
    chat,            \* the chat session of the AI coach exists
    isAIProcessing,  \* globalUIState.isAIProcessing
    promptInput,     \* the characters of #ai-prompt-input
    aiRequests,      \* the askAI requests in flight: stage and chunks received
    asks,            \* number of askAI calls so far
    lastSubmit       \* what the last submit of the coach form did

coachVars == <<chat, isAIProcessing, promptInput, aiRequests, asks, lastSubmit>>

VARIABLES
    notificationIntervalId,  \* the module variable of notifications.ts
    intervals,               \* ids of the intervals that are running
    ticked,                  \* the intervals that have fired or were set in this minute
    prayerSettings,          \* the stored prayer settings
    permission,              \* Notification.permission
    now,                     \* the minute of the day
    sentToday,               \* the sent_notifications item of sessionStorage for today
    runs,                    \* runs of checkAndSendNotifications suspended at their await
    periodEnd,               \* where a call of handlePeriodEnd is suspended
    sent,                    \* notifications shown today, per prayer
    restarts                 \* number of scheduler starts so far

notifyVars == <<notificationIntervalId, intervals, ticked, prayerSettings, permission, now,
                sentToday, runs, periodEnd, sent, restarts>>

\* the variables of the asynchronous parts of the application
asyncVars == <<fetchVars, navVars, onbVars, coachVars, notifyVars>>

\* what the notification scheduler leaves alone
notifyRest == <<listVars, cycleVars, storeVars, fetchVars, navVars, onbVars, coachVars>>

\* what the initial load leaves alone
fetchRest == <<listVars, cycleVars, storeVars, navVars, onbVars, coachVars, notifyVars>>

\* what navigation leaves alone
navRest == <<listVars, cycleVars, storeVars, fetchVars, onbVars, coachVars, notifyVars>>

\* what the AI coach leaves alone, the achievements apart
coachRest == <<log, tz, phaseInfo, lastSave, listVars, storeVars, fetchVars, navVars, onbVars,
               notifyVars>>

vars == <<listVars, cycleVars, storeVars, asyncVars>>

(***************************************************************************)
(* Sequences helpers.                                                      *)
(***************************************************************************)
RECURSIVE SeqFilterOut(_, _)
\* the sequence s without the elements whose id is in ids
SeqFilterOut(s, ids) ==
    IF s = <<>> THEN <<>>
    ELSE IF Head(s).id \in ids THEN SeqFilterOut(Tail(s), ids)
         ELSE <<Head(s)>> \o SeqFilterOut(Tail(s), ids)

InsertAt(s, i, x) == SubSeq(s, 1, i - 1) \o <<x>> \o SubSeq(s, i, Len(s))

IndexOfId(c, id) == CHOOSE i \in DOMAIN c : c[i].id = id

HasId(c, id) == \E i \in DOMAIN c : c[i].id = id

NodeIds(c) == {c[i].id : i \in DOMAIN c}

(***************************************************************************)
(* Items and nodes.                                                        *)
(***************************************************************************)
\* the data of an item as first loaded and after an edit
Payloads == {"v1", "v2"}

Item == [key : Keys, payload : Payloads]

\* the catalogue is fetched once: the data of an id never changes
CatalogueItem == {it \in Item : it.payload = "v1"}

ItemLists == UNION {[1 .. n -> CatalogueItem] : n \in 0 .. MaxLen}

EditedKeys == 0 .. (NumEdited - 1)

\* lists of items whose data may differ from call to call
EditedLists ==
    UNION {[1 .. n -> {it \in Item : it.key \in EditedKeys}] : n \in 0 .. NumEdited}

KeysOf(its) == [i \in DOMAIN its |-> its[i].key]

UniqueKeys(its) == \A i, j \in DOMAIN its : its[i].key = its[j].key => i = j

\* String(keyFn(item)): the key as it is written to and read from data-id
KeyStr(k) == ToString(k)

\* a child without a data-id attribute reads as a falsy key
NoKey == ""

\* Node identities are object references. Before every operation the children
\* are renamed 1..n in document order, so that a state keeps only how the nodes
\* after the operation relate to the nodes before it.
Renumber(c) == [i \in DOMAIN c |-> [c[i] EXCEPT !.id = i]]

\* the n-th identity no child of c has
FreshId(c, n) == Len(c) + n

\* faulty variant: the markup is appended to the children instead of replacing them
SetInnerHTML_Append(c, kind) ==
    c \o << [id |-> FreshId(c, 1), key |-> NoKey, kind |-> kind, content |-> kind] >>

\* container.innerHTML = html: every child is dropped, the single un-keyed
\* root element of the markup is a new node
SetInnerHTML(c, kind) ==
    << [id |-> FreshId(c, 1), key |-> NoKey, kind |-> kind, content |-> kind] >>

\* renderFn(item) parsed by tempDiv.innerHTML: one element carrying data-id
\* and showing the data of the item
renderFn(item, id) ==
    [id |-> id, key |-> KeyStr(item.key), kind |-> "item", content |-> item.payload]

(***************************************************************************)
(* renderList                                                              *)
(***************************************************************************)
\* faulty variant: no child is entered into the map existingNodes
existingKeys_None(c) == {}

\* keys of the map existingNodes: the truthy data-id values of the children
existingKeys(c) == {c[i].key : i \in DOMAIN c} \ {NoKey}

\* existingNodes.get(key): Map.set keeps the last child carrying the key
existingNode(c, k) ==
    LET I == {i \in DOMAIN c : c[i].key = k}
        last == CHOOSE i \in I : \A j \in I : j <= i
    IN  c[last]

\* number of nodes created for items 1..i
CreatedUpTo(c, its, i) ==
    Cardinality({j \in 1 .. i : KeyStr(its[j].key) \notin existingKeys(c)})

\* faulty variant: every item is rendered anew, a known key included
newNodes_AlwaysRender(c, its) ==
    [i \in DOMAIN its |-> renderFn(its[i], FreshId(c, i))]

\* faulty variant: a reused node is given the content of the item
newNodes_Rerender(c, its) ==
    [i \in DOMAIN its |->
        IF KeyStr(its[i].key) \in existingKeys(c)
        THEN [existingNode(c, KeyStr(its[i].key)) EXCEPT !.content = its[i].payload]
        ELSE renderFn(its[i], FreshId(c, CreatedUpTo(c, its, i)))]

\* Step 1: the node of every item, reused when the key is known
newNodes(c, its) ==
    [i \in DOMAIN its |->
        IF KeyStr(its[i].key) \in existingKeys(c)
        THEN existingNode(c, KeyStr(its[i].key))
        ELSE renderFn(its[i], FreshId(c, CreatedUpTo(c, its, i)))]

usedKeys(its) == {KeyStr(its[i].key) : i \in DOMAIN its}

\* faulty variant: step 2 removes nothing
RemovedIds_None(c, its) == {}

\* Step 2: the nodes of existingNodes whose key is not used
RemovedIds(c, its) ==
    {existingNode(c, k).id : k \in existingKeys(c) \ usedKeys(its)}

RemoveUnused(c, its) == SeqFilterOut(c, RemovedIds(c, its))

\* faulty variant: lastNode.before(newNode)
After_Before(c, lastId, node) ==
    LET rest == SeqFilterOut(c, {node.id})
    IN  IF node.id = lastId THEN c
        ELSE InsertAt(rest, IndexOfId(rest, lastId), node)

\* lastNode.after(newNode): insert before the first following sibling of
\* lastNode that is not newNode itself
After(c, lastId, node) ==
    LET li == IndexOfId(c, lastId)
        following == {i \in DOMAIN c : i > li /\ c[i].id # node.id}
        rest == SeqFilterOut(c, {node.id})
    IN  IF following = {}
        THEN rest \o <<node>>
        ELSE LET ni == CHOOSE i \in following : \A j \in following : i <= j
             IN  InsertAt(rest, IndexOfId(rest, c[ni].id), node)

\* container.prepend(newNode)
Prepend(c, node) == <<node>> \o SeqFilterOut(c, {node.id})

\* faulty variant: the expected node is always container.firstElementChild
expectedNode_First(c, lastId) == IF c = <<>> THEN 0 ELSE c[1].id

\* lastNode ? lastNode.nextElementSibling : container.firstElementChild
\* (0 stands for null)
expectedNode(c, lastId) ==
    IF lastId = 0
    THEN IF c = <<>> THEN 0 ELSE c[1].id
    ELSE LET li == IndexOfId(c, lastId)
         IN  IF li = Len(c) THEN 0 ELSE c[li + 1].id

RECURSIVE Reorder_AlwaysMove(_, _, _, _, _)
\* faulty variant: every node is relocated, one in its place included
Reorder_AlwaysMove(nn, i, lastId, st, orig) ==
    IF i > Len(nn) THEN st
    ELSE LET node == nn[i]
             c2 == IF lastId # 0 THEN After(st.c, lastId, node)
                   ELSE Prepend(st.c, node)
             st2 == [c |-> c2,
                     moved |-> st.moved \cup
                         (IF HasId(orig, node.id) THEN {node.id} ELSE {}),
                     inserted |-> st.inserted \cup
                         (IF ~HasId(orig, node.id) THEN {node.id} ELSE {})]
         IN  Reorder_AlwaysMove(nn, i + 1, node.id, st2, orig)

RECURSIVE Reorder(_, _, _, _, _)
\* Step 3: walk newNodes from position i, st = [c, moved, inserted]
Reorder(nn, i, lastId, st, orig) ==
    IF i > Len(nn) THEN st
    ELSE LET node == nn[i]
             inPlace == expectedNode(st.c, lastId) = node.id
             c2 == IF inPlace THEN st.c
                   ELSE IF lastId # 0 THEN After(st.c, lastId, node)
                        ELSE Prepend(st.c, node)
             st2 == [c |-> c2,
                     moved |-> st.moved \cup
                         (IF ~inPlace /\ HasId(orig, node.id) THEN {node.id} ELSE {}),
                     inserted |-> st.inserted \cup
                         (IF ~inPlace /\ ~HasId(orig, node.id) THEN {node.id} ELSE {})]
         IN  Reorder(nn, i + 1, node.id, st2, orig)

NoOps == [created |-> {}, removed |-> {}, moved |-> {}, replaced |-> FALSE]

\* the container and the DOM operations of renderList(container, items, ...)
renderList(c, its) ==
    IF Len(its) = 0
    THEN [c |-> SetInnerHTML(c, "empty"),
          ops |-> [NoOps EXCEPT !.replaced = TRUE]]
    ELSE LET nn == newNodes(c, its)
             kept == RemoveUnused(c, its)
             st == Reorder(nn, 1, 0, [c |-> kept, moved |-> {}, inserted |-> {}], c)
         IN  [c |-> st.c,
              ops |-> [created |-> {nn[i].id : i \in DOMAIN nn} \ NodeIds(c),
                       removed |-> RemovedIds(c, its),
                       moved |-> st.moved,
                       replaced |-> FALSE]]

(***************************************************************************)
(* Operations on the list container.                                       *)
(***************************************************************************)
\* every operation on the container: the call's result and the history
Apply(op, its, r) ==
    /\ container' = r.c
    /\ ops' = r.ops
    /\ prevContainer' = Renumber(container)
    /\ prevKeys' = KeysOf(items)
    /\ prevOp' = lastOp
    /\ lastOp' = op
    /\ items' = its

\* renderWorkoutList / renderRecipeList with a list of pairwise distinct ids
RenderList ==
    /\ \E its \in ItemLists :
        /\ UniqueKeys(its)
        /\ \E r \in {renderList(Renumber(container), its)} :
               Apply("renderList", its, r)
    /\ UNCHANGED <<cycleVars, storeVars, asyncVars>>

\* the same call with a list in which two items share an id
RenderListDup ==
    /\ \E its \in ItemLists :
        /\ ~UniqueKeys(its)
        /\ Len(its) <= MaxDupLen
        /\ \E r \in {renderList(Renumber(container), its)} :
               Apply("renderList", its, r)
    /\ UNCHANGED <<cycleVars, storeVars, asyncVars>>

\* renderList called with items whose data changes between calls
RenderListEdited ==
    /\ \E its \in EditedLists :
        /\ UniqueKeys(its)
        /\ \E r \in {renderList(Renumber(container), its)} :
               Apply("renderList", its, r)
    /\ UNCHANGED <<cycleVars, storeVars, asyncVars>>

\* renderWorkoutsPage writes the skeleton placeholder into the playlist
ShowSkeleton ==
    /\ Apply("skeleton", <<>>,
             [c |-> SetInnerHTML(Renumber(container), "skeleton"),
              ops |-> [NoOps EXCEPT !.replaced = TRUE]])
    /\ UNCHANGED <<cycleVars, storeVars, asyncVars>>

ListInit ==
    /\ container = <<>>
    /\ prevContainer = <<>>
    /\ items = <<>>
    /\ prevKeys = <<>>
    /\ lastOp = "init"
    /\ prevOp = "init"
    /\ ops = NoOps

(***************************************************************************)
(* Calendar dates and the Date arithmetic of cycle.ts.                     *)
(***************************************************************************)
\* number of consecutive calendar days the model's dates range over
NumDays == 14

\* first day of the window: it spans 29 February and the night of 10 March,
\* when America/New_York switches to daylight saving time
FirstDate == [y |-> 2024, m |-> 2, d |-> 27]

IsLeap(y) == (y % 4 = 0 /\ y % 100 # 0) \/ y % 400 = 0

DaysInMonth(y, m) ==
    IF m = 2 THEN (IF IsLeap(y) THEN 29 ELSE 28)
    ELSE IF m \in {4, 6, 9, 11} THEN 30 ELSE 31

NextDate(dt) ==
    IF dt.d < DaysInMonth(dt.y, dt.m) THEN [dt EXCEPT !.d = dt.d + 1]
    ELSE IF dt.m < 12 THEN [dt EXCEPT !.m = dt.m + 1, !.d = 1]
         ELSE [y |-> dt.y + 1, m |-> 1, d |-> 1]

RECURSIVE DateAt(_)
\* the calendar date n days after FirstDate
DateAt(n) == IF n = 0 THEN FirstDate ELSE NextDate(DateAt(n - 1))

\* the dates a target date is drawn from
Dates == {DateAt(n) : n \in 0 .. (NumDays - 1)}

\* the dates of the calendar cells a log entry is submitted for
LogDates == {DateAt(0), DateAt(3), DateAt(12)}

RECURSIVE DaysBeforeMonth(_, _)
DaysBeforeMonth(y, m) ==
    IF m = 1 THEN 0 ELSE DaysBeforeMonth(y, m - 1) + DaysInMonth(y, m - 1)

\* days from 1 January of the year of FirstDate (the dates of the model lie in it)
DayNumber(dt) == DaysBeforeMonth(dt.y, dt.m) + dt.d - 1

HoursPerDay == 24

TimeZones == {"UTC", "America/New_York"}

\* hours from local midnight of dt to the UTC midnight of dt
UtcOffset(zone, dt) ==
    IF zone = "UTC" THEN 0
    ELSE IF DayNumber(dt) <= DayNumber([y |-> FirstDate.y, m |-> 3, d |-> 10]) THEN 5 ELSE 4

\* new Date('YYYY-MM-DD').getTime(): UTC midnight, in hours
UtcTime(dt) == HoursPerDay * DayNumber(dt)

\* new Date('YYYY-MM-DD' + 'T00:00:00').getTime(): local midnight, in hours
LocalTime(zone, dt) == HoursPerDay * DayNumber(dt) + UtcOffset(zone, dt)

\* faulty variant: Math.floor(num / den)
MathRound_Floor(num, den) == num \div den

\* faulty variant: the difference in days truncated, not rounded
daysBetween_Trunc(date1, date2, zone) ==
    (LocalTime(zone, date2) - LocalTime(zone, date1)) \div HoursPerDay

\* Math.round(num / den) for den > 0: halves round up
MathRound(num, den) == (2 * num + den) \div (2 * den)

daysBetween(date1, date2, zone) ==
    MathRound(LocalTime(zone, date2) - LocalTime(zone, date1), HoursPerDay)

(***************************************************************************)
(* The cycle log.                                                          *)
(***************************************************************************)
\* period is undefined for an entry without a period marker
COMPLETED_WORKOUTS_KEY == "ahavatfit_completed_workouts"

CYCLE_LOG_DATA_KEY == "ahavatfit_cycle_log"

CYCLE_SETTINGS_KEY == "ahavatfit_cycle_settings"

StoreKeys == {COMPLETED_WORKOUTS_KEY, CYCLE_LOG_DATA_KEY, CYCLE_SETTINGS_KEY}

NoPeriod == "none"

PeriodMarkers == {"start", "flow", "end"}

\* what the cycle log form submits for a date
FormEntries ==
    {[period |-> p, symptoms |-> <<>>, mood |-> "", notes |-> ""] :
        p \in PeriodMarkers \cup {NoPeriod}}
    \cup {[period |-> NoPeriod, symptoms |-> <<"cramps">>, mood |-> "", notes |-> ""]}

\* Object.keys(allLogs)
LogKeys(allLogs) == [i \in DOMAIN allLogs |-> allLogs[i].date]

HasKey(allLogs, date) == \E i \in DOMAIN allLogs : allLogs[i].date = date

\* allLogs[date] of a key the log has
EntryOf(allLogs, date) == allLogs[CHOOSE i \in DOMAIN allLogs : allLogs[i].date = date]

RECURSIVE DeleteKey(_, _)
\* delete allLogs[date]
DeleteKey(allLogs, date) ==
    IF allLogs = <<>> THEN <<>>
    ELSE IF Head(allLogs).date = date THEN DeleteKey(Tail(allLogs), date)
         ELSE <<Head(allLogs)>> \o DeleteKey(Tail(allLogs), date)

\* allLogs[date] = value: an existing key keeps its place, a new key is last
SetKey(allLogs, date, value) ==
    IF HasKey(allLogs, date)
    THEN [i \in DOMAIN allLogs |->
            IF allLogs[i].date = date THEN value ELSE allLogs[i]]
    ELSE Append(allLogs, value)

\* allLogs[date] || {}
ExistingEntry(allLogs, date) ==
    IF HasKey(allLogs, date) THEN EntryOf(allLogs, date)
    ELSE [date |-> date, period |-> NoPeriod, symptoms |-> <<>>, mood |-> "", notes |-> ""]

\* faulty variant: a property of entry that is empty does not override
Merge_KeepExisting(existingEntry, entry) ==
    [existingEntry EXCEPT
        !.period = IF entry.period = NoPeriod THEN @ ELSE entry.period,
        !.symptoms = IF entry.symptoms = <<>> THEN @ ELSE entry.symptoms,
        !.mood = IF entry.mood = "" THEN @ ELSE entry.mood,
        !.notes = IF entry.notes = "" THEN @ ELSE entry.notes]

\* { ...existingEntry, ...entry }: entry carries the properties period,
\* symptoms, mood and notes, and each overrides that of the existing entry
Merge(existingEntry, entry) ==
    [existingEntry EXCEPT !.period = entry.period, !.symptoms = entry.symptoms,
                          !.mood = entry.mood, !.notes = entry.notes]

IsEmptyEntry(entry) ==
    /\ entry.period = NoPeriod
    /\ Len(entry.symptoms) = 0
    /\ entry.mood = ""
    /\ entry.notes = ""

\* faulty variant: the entry is stored whatever its fields are
saveCycleLogEntry_KeepEmpty(allLogs, date, entry) ==
    SetKey(allLogs, date, Merge(ExistingEntry(allLogs, date), entry))

\* the log saveCycleLogEntry(date, entry) stores
saveCycleLogEntry(allLogs, date, entry) ==
    IF IsEmptyEntry(entry) THEN DeleteKey(allLogs, date)
    ELSE SetKey(allLogs, date, Merge(ExistingEntry(allLogs, date), entry))

(***************************************************************************)
(* getDayPhase                                                             *)
(***************************************************************************)
RECURSIVE SelectSeq2(_, _)
\* Object.keys(allLogs).filter(date => allLogs[date].period === 'start')
SelectSeq2(allLogs, marker) ==
    IF allLogs = <<>> THEN <<>>
    ELSE IF Head(allLogs).period = marker
         THEN <<Head(allLogs).date>> \o SelectSeq2(Tail(allLogs), marker)
         ELSE SelectSeq2(Tail(allLogs), marker)

RECURSIVE InsertSorted(_, _)
\* x put into the sorted sequence s after the elements the comparator
\* (a, b) => new Date(b).getTime() - new Date(a).getTime() does not put after it
InsertSorted(s, x) ==
    IF s = <<>> THEN <<x>>
    ELSE IF UtcTime(x) - UtcTime(Head(s)) > 0 THEN <<x>> \o s
         ELSE <<Head(s)>> \o InsertSorted(Tail(s), x)

RECURSIVE SortDesc(_)
\* periodStartDays.sort(comparator): a stable sort, latest date first
SortDesc(s) ==
    IF s = <<>> THEN <<>>
    ELSE InsertSorted(SortDesc(SubSeq(s, 1, Len(s) - 1)), s[Len(s)])

\* null, for a date and for a day of cycle
Null == <<>>

RECURSIVE SelectMarked(_)
\* the keys of the entries with any period marker
SelectMarked(allLogs) ==
    IF allLogs = <<>> THEN <<>>
    ELSE IF Head(allLogs).period # NoPeriod
         THEN <<Head(allLogs).date>> \o SelectMarked(Tail(allLogs))
         ELSE SelectMarked(Tail(allLogs))

\* faulty variant: the filter keeps every entry with a period marker
getMostRecentStartDate_AnyMarker(allLogs) ==
    LET periodStartDays == SelectMarked(allLogs)
    IN  IF Len(periodStartDays) = 0 THEN Null
        ELSE <<SortDesc(periodStartDays)[1]>>

\* faulty variant: the start that was inserted last, without the sort
getMostRecentStartDate_LastInserted(allLogs) ==
    LET periodStartDays == SelectSeq2(allLogs, "start")
    IN  IF Len(periodStartDays) = 0 THEN Null
        ELSE <<periodStartDays[Len(periodStartDays)]>>

getMostRecentStartDate(allLogs) ==
    LET periodStartDays == SelectSeq2(allLogs, "start")
    IN  IF Len(periodStartDays) = 0 THEN Null
        ELSE <<SortDesc(periodStartDays)[1]>>

DefaultCycleLength == 28
DefaultPeriodLength == 5

\* getCycleData() without stored settings
DefaultCycleData == [cycleLength |-> DefaultCycleLength, periodLength |-> DefaultPeriodLength]

\* the configurations getDayPhase is called with
CycleConfigs ==
    {DefaultCycleData,
     [cycleLength |-> 10, periodLength |-> 2],
     [cycleLength |-> 9, periodLength |-> 2],
     [cycleLength |-> 4, periodLength |-> 6],
     [cycleLength |-> 3, periodLength |-> 1]}

PhaseOf(phase, day) == [phase |-> phase, dayOfCycle |-> day]

\* faulty variant: the period marker of the target date is not looked at
getDayPhase_NoOverride(targetDateStr, cycleData, allLogs, zone) ==
    LET mostRecentStart == getMostRecentStartDate(allLogs)
    IN  IF mostRecentStart = Null THEN PhaseOf("unknown", Null)
        ELSE
        LET dayOfCycle == daysBetween(mostRecentStart[1], targetDateStr, zone) + 1
            ovulationStart == MathRound(cycleData.cycleLength, 2) - 2
            ovulationEnd == MathRound(cycleData.cycleLength, 2) + 2
        IN  IF dayOfCycle <= 0 THEN PhaseOf("unknown", Null)
            ELSE IF dayOfCycle <= cycleData.periodLength
                 THEN PhaseOf("menstruation", <<dayOfCycle>>)
            ELSE IF dayOfCycle <= ovulationStart THEN PhaseOf("follicular", <<dayOfCycle>>)
            ELSE IF dayOfCycle <= ovulationEnd THEN PhaseOf("ovulation", <<dayOfCycle>>)
            ELSE IF dayOfCycle <= cycleData.cycleLength THEN PhaseOf("luteal", <<dayOfCycle>>)
            ELSE PhaseOf("unknown", <<dayOfCycle>>)

\* faulty variant: a cycle that has overrun its length stays luteal
getDayPhase_NoOverrun(targetDateStr, cycleData, allLogs, zone) ==
    LET mostRecentStart == getMostRecentStartDate(allLogs)
    IN  IF mostRecentStart = Null THEN PhaseOf("unknown", Null)
        ELSE
        LET dayOfCycle == daysBetween(mostRecentStart[1], targetDateStr, zone) + 1
            ovulationStart == MathRound(cycleData.cycleLength, 2) - 2
            ovulationEnd == MathRound(cycleData.cycleLength, 2) + 2
        IN  IF dayOfCycle <= 0 THEN PhaseOf("unknown", Null)
            ELSE IF HasKey(allLogs, targetDateStr)
                    /\ EntryOf(allLogs, targetDateStr).period # NoPeriod
                 THEN PhaseOf("menstruation", <<dayOfCycle>>)
            ELSE IF dayOfCycle <= cycleData.periodLength
                 THEN PhaseOf("menstruation", <<dayOfCycle>>)
            ELSE IF dayOfCycle <= ovulationStart THEN PhaseOf("follicular", <<dayOfCycle>>)
            ELSE IF dayOfCycle <= ovulationEnd THEN PhaseOf("ovulation", <<dayOfCycle>>)
            ELSE PhaseOf("luteal", <<dayOfCycle>>)

\* faulty variant: the day of cycle wraps around at cycleLength
getDayPhase_Wrap(targetDateStr, cycleData, allLogs, zone) ==
    LET mostRecentStart == getMostRecentStartDate(allLogs)
    IN  IF mostRecentStart = Null THEN PhaseOf("unknown", Null)
        ELSE
        LET days == daysBetween(mostRecentStart[1], targetDateStr, zone) + 1
            dayOfCycle == IF days <= 0 THEN days
                          ELSE ((days - 1) % cycleData.cycleLength) + 1
            ovulationStart == MathRound(cycleData.cycleLength, 2) - 2
            ovulationEnd == MathRound(cycleData.cycleLength, 2) + 2
        IN  IF dayOfCycle <= 0 THEN PhaseOf("unknown", Null)
            ELSE IF HasKey(allLogs, targetDateStr)
                    /\ EntryOf(allLogs, targetDateStr).period # NoPeriod
                 THEN PhaseOf("menstruation", <<dayOfCycle>>)
            ELSE IF dayOfCycle <= cycleData.periodLength
                 THEN PhaseOf("menstruation", <<dayOfCycle>>)
            ELSE IF dayOfCycle <= ovulationStart THEN PhaseOf("follicular", <<dayOfCycle>>)
            ELSE IF dayOfCycle <= ovulationEnd THEN PhaseOf("ovulation", <<dayOfCycle>>)
            ELSE IF dayOfCycle <= cycleData.cycleLength THEN PhaseOf("luteal", <<dayOfCycle>>)
            ELSE PhaseOf("unknown", <<dayOfCycle>>)

\* faulty variant: the early return tests dayOfCycle < 0
getDayPhase_ZeroDay(targetDateStr, cycleData, allLogs, zone) ==
    LET mostRecentStart == getMostRecentStartDate(allLogs)
    IN  IF mostRecentStart = Null THEN PhaseOf("unknown", Null)
        ELSE
        LET dayOfCycle == daysBetween(mostRecentStart[1], targetDateStr, zone) + 1
            ovulationStart == MathRound(cycleData.cycleLength, 2) - 2
            ovulationEnd == MathRound(cycleData.cycleLength, 2) + 2
        IN  IF dayOfCycle < 0 THEN PhaseOf("unknown", Null)
            ELSE IF HasKey(allLogs, targetDateStr)
                    /\ EntryOf(allLogs, targetDateStr).period # NoPeriod
                 THEN PhaseOf("menstruation", <<dayOfCycle>>)
            ELSE IF dayOfCycle <= cycleData.periodLength
                 THEN PhaseOf("menstruation", <<dayOfCycle>>)
            ELSE IF dayOfCycle <= ovulationStart THEN PhaseOf("follicular", <<dayOfCycle>>)
            ELSE IF dayOfCycle <= ovulationEnd THEN PhaseOf("ovulation", <<dayOfCycle>>)
            ELSE IF dayOfCycle <= cycleData.cycleLength THEN PhaseOf("luteal", <<dayOfCycle>>)
            ELSE PhaseOf("unknown", <<dayOfCycle>>)

getDayPhase(targetDateStr, cycleData, allLogs, zone) ==
    LET mostRecentStart == getMostRecentStartDate(allLogs)
    IN  IF mostRecentStart = Null THEN PhaseOf("unknown", Null)
        ELSE
        LET dayOfCycle == daysBetween(mostRecentStart[1], targetDateStr, zone) + 1
            ovulationStart == MathRound(cycleData.cycleLength, 2) - 2
            ovulationEnd == MathRound(cycleData.cycleLength, 2) + 2
        IN  IF dayOfCycle <= 0 THEN PhaseOf("unknown", Null)
            ELSE IF HasKey(allLogs, targetDateStr)
                    /\ EntryOf(allLogs, targetDateStr).period # NoPeriod
                 THEN PhaseOf("menstruation", <<dayOfCycle>>)
            ELSE IF dayOfCycle <= cycleData.periodLength
                 THEN PhaseOf("menstruation", <<dayOfCycle>>)
            ELSE IF dayOfCycle <= ovulationStart THEN PhaseOf("follicular", <<dayOfCycle>>)
            ELSE IF dayOfCycle <= ovulationEnd THEN PhaseOf("ovulation", <<dayOfCycle>>)
            ELSE IF dayOfCycle <= cycleData.cycleLength THEN PhaseOf("luteal", <<dayOfCycle>>)
            ELSE PhaseOf("unknown", <<dayOfCycle>>)

(***************************************************************************)
(* Operations on the cycle log.                                            *)
(***************************************************************************)
NoCall == [called |-> FALSE]

NoSave == [called |-> FALSE]

\* checkAndUnlockAchievement(key)
checkAndUnlockAchievement(unlocked, key) == unlocked \cup {key}

\* the cycle log form is submitted for a date; getAllLogs returns the stored
\* log when its text parses
SaveCycleLogEntry ==
    /\ CYCLE_LOG_DATA_KEY \notin corrupt
    /\ \E date \in LogDates, entry \in FormEntries :
        \E allLogs \in {saveCycleLogEntry(log, date, entry)} :
            /\ log' = allLogs
            /\ lastSave' = [called |-> TRUE, date |-> date, entry |-> entry,
                            allLogs |-> log]
            /\ achievements' =
                   IF Len(LogKeys(allLogs)) = 1
                   THEN checkAndUnlockAchievement(achievements, "CYCLE_LOG_FIRST")
                   ELSE achievements
    /\ phaseInfo' = NoCall
    /\ UNCHANGED <<tz, listVars, storeVars, asyncVars>>

\* a page asks for the phase of a date
GetDayPhase ==
    /\ \E target \in Dates, cycleData \in CycleConfigs :
        phaseInfo' = [called |-> TRUE, target |-> target, cycleData |-> cycleData,
                      allLogs |-> log,
                      result |-> getDayPhase(target, cycleData, log, tz)]
    /\ lastSave' = NoSave
    /\ UNCHANGED <<log, achievements, tz, listVars, storeVars, asyncVars>>

CycleInit ==
    /\ log = <<>>
    /\ achievements = {}
    /\ tz \in TimeZones
    /\ phaseInfo = NoCall
    /\ lastSave = NoSave

(***************************************************************************)
(* Loading from localStorage.                                              *)
(***************************************************************************)
NoLoad == [fn |-> "none"]

\* the outcome of a load: the value returned, or the SyntaxError of JSON.parse
\* thrown to the caller
Returned(fn, raw, value) == [fn |-> fn, raw |-> raw, threw |-> FALSE, value |-> value]

Threw(fn) == [fn |-> fn, raw |-> "invalid", threw |-> TRUE, value |-> Null]

\* localStorage.getItem(key) seen as absent, valid JSON or invalid text
RawOf(key, present) ==
    IF key \in corrupt THEN "invalid" ELSE IF present THEN "json" ELSE "absent"

\* getCompletedWorkouts()
GetCompletedWorkouts ==
    /\ IF COMPLETED_WORKOUTS_KEY \in corrupt
       THEN /\ corrupt' = corrupt \ {COMPLETED_WORKOUTS_KEY}
            /\ completedWorkouts' = <<>>
            /\ loaded' = Returned("getCompletedWorkouts", "invalid", <<>>)
       ELSE /\ loaded' = Returned("getCompletedWorkouts",
                                  RawOf(COMPLETED_WORKOUTS_KEY, completedWorkouts # <<>>),
                                  completedWorkouts)
            /\ UNCHANGED <<corrupt, completedWorkouts>>
    /\ UNCHANGED <<settings, listVars, cycleVars, asyncVars>>

\* getCycleData()
GetCycleData ==
    /\ loaded' =
           IF CYCLE_SETTINGS_KEY \in corrupt THEN Threw("getCycleData")
           ELSE IF settings = Null
                THEN Returned("getCycleData", "absent", DefaultCycleData)
                ELSE Returned("getCycleData", "json", settings[1])
    /\ UNCHANGED <<settings, completedWorkouts, corrupt, listVars, cycleVars, asyncVars>>

\* getAllLogs()
GetAllLogs ==
    /\ loaded' =
           IF CYCLE_LOG_DATA_KEY \in corrupt THEN Threw("getAllLogs")
           ELSE Returned("getAllLogs", RawOf(CYCLE_LOG_DATA_KEY, log # <<>>), log)
    /\ UNCHANGED <<settings, completedWorkouts, corrupt, listVars, cycleVars, asyncVars>>

(***************************************************************************)
(* The initial load of the static documents (api.ts).                      *)
(***************************************************************************)
\* the fetches of loadInitialAppData in the order they are started; the last
\* is the fetchWorkouts call inside fetchPrograms
Fetches == <<"fetchWorkouts", "fetchRecipes", "fetchPrograms", "fetchPrograms.fetchWorkouts">>

Procs == {Fetches[i] : i \in DOMAIN Fetches}

WorkoutFetches == {"fetchWorkouts", "fetchPrograms.fetchWorkouts"}

StartRank(p) == CHOOSE i \in DOMAIN Fetches : Fetches[i] = p

Urls == {"workouts.json", "cookbook.json", "programs.json"}

Url(p) ==
    IF p \in WorkoutFetches THEN "workouts.json"
    ELSE IF p = "fetchRecipes" THEN "cookbook.json"
    ELSE "programs.json"

\* a workout of workouts.json: its id is <<k>>, or Null when the document
\* gives none; its title is named after its place in the document
RawWorkouts(n) ==
    {[i \in 1 .. n |-> [id |-> ids[i], title |-> i]] :
        ids \in [1 .. n -> {Null} \cup {<<k>> : k \in Keys}]}

WorkoutDocs == UNION {RawWorkouts(n) : n \in 0 .. MaxDocLen}

\* data.map((w, index) => ({ ...w, id: w.id ?? index }))
WithIds(data) ==
    [i \in DOMAIN data |->
        [id |-> IF data[i].id = Null THEN i - 1 ELSE data[i].id[1],
         title |-> data[i].title]]

\* cookbook.json and data.map((r, index) => ({ ...r, id: index }))
RecipeDoc == <<[title |-> 1]>>

RecipesWithIds(data) == [i \in DOMAIN data |-> [id |-> i - 1, title |-> data[i].title]]

\* programs.json: one scheduled day
ProgramDoc == <<[workoutId |-> 0]>>

\* day.title = workout ? workout.title : 'Неизвестная тренировка', with the
\* workout allWorkouts.find(w => w.id === day.workoutId)
Titled(data, allWorkouts) ==
    [i \in DOMAIN data |->
        LET found == {j \in DOMAIN allWorkouts : allWorkouts[j].id = data[i].workoutId}
        IN  [workoutId |-> data[i].workoutId,
             title |-> IF found = {} THEN Null
                       ELSE <<allWorkouts[CHOOSE j \in found : \A k \in found : j <= k].title>>]]

\* fetchData up to its first await: the cache argument decides
Called(cache) == IF cache # Null THEN "done" ELSE "delay"

\* loadInitialAppData: Promise.all starts the three fetches one after another
LoadInitialAppData ==
    /\ \A p \in Procs : pc[p] = "idle"
    /\ pc' = [p \in Procs |->
                 IF p = "fetchWorkouts" THEN Called(workoutsCache)
                 ELSE IF p = "fetchRecipes" THEN Called(recipesCache)
                 ELSE IF p = "fetchPrograms" THEN Called(programsCache)
                 ELSE "idle"]
    /\ returned' = [p \in Procs |->
                 IF p = "fetchWorkouts" THEN workoutsCache
                 ELSE IF p = "fetchRecipes" THEN recipesCache
                 ELSE IF p = "fetchPrograms" THEN programsCache
                 ELSE Null]
    /\ UNCHANGED <<doc, workoutsCache, recipesCache, programsCache, requests,
                   cacheWrites, fetchRest>>

\* the timer of FAKE_DELAY fires and fetchData calls fetch(url); timers of
\* one delay fire in the order they were set
TimerFires(p) ==
    /\ pc[p] = "delay"
    /\ \A q \in Procs : StartRank(q) < StartRank(p) => pc[q] # "delay"
    /\ pc' = [pc EXCEPT ![p] = "fetching"]
    /\ requests' = [requests EXCEPT ![Url(p)] = @ + 1]
    /\ UNCHANGED <<doc, workoutsCache, recipesCache, programsCache, cacheWrites,
                   returned, fetchRest>>

\* the response arrives: response.ok is read and response.json() is awaited,
\* or the fetch throws, and with it the fetchPrograms that awaits it
ResponseArrives(p) ==
    /\ pc[p] = "fetching"
    /\ \E ok \in BOOLEAN :
        pc' = IF ok THEN [pc EXCEPT ![p] = "parsing"]
              ELSE [q \in Procs |->
                       IF q = p \/ (p = "fetchPrograms.fetchWorkouts" /\ q = "fetchPrograms")
                       THEN "failed" ELSE pc[q]]
    /\ UNCHANGED <<doc, workoutsCache, recipesCache, programsCache, requests,
                   cacheWrites, returned, fetchRest>>

\* fetchWorkouts gets its data: the cache is assigned and returned
WorkoutsParsed ==
    /\ pc["fetchWorkouts"] = "parsing"
    /\ pc' = [pc EXCEPT !["fetchWorkouts"] = "done"]
    /\ workoutsCache' = <<WithIds(doc)>>
    /\ cacheWrites' = cacheWrites + 1
    /\ returned' = [returned EXCEPT !["fetchWorkouts"] = <<WithIds(doc)>>]
    /\ UNCHANGED <<doc, recipesCache, programsCache, requests, fetchRest>>

\* fetchRecipes gets its data
RecipesParsed ==
    /\ pc["fetchRecipes"] = "parsing"
    /\ pc' = [pc EXCEPT !["fetchRecipes"] = "done"]
    /\ recipesCache' = <<RecipesWithIds(RecipeDoc)>>
    /\ returned' = [returned EXCEPT !["fetchRecipes"] = <<RecipesWithIds(RecipeDoc)>>]
    /\ UNCHANGED <<doc, workoutsCache, programsCache, requests, cacheWrites, fetchRest>>

\* fetchPrograms gets its data and calls fetchWorkouts: with the cache set
\* it goes on to the titles and its own cache, without it fetchWorkouts
\* starts a fetch of its own
ProgramsParsed ==
    /\ pc["fetchPrograms"] = "parsing"
    /\ IF workoutsCache # Null
       THEN /\ pc' = [pc EXCEPT !["fetchPrograms"] = "done",
                                !["fetchPrograms.fetchWorkouts"] = "done"]
            /\ programsCache' = <<Titled(ProgramDoc, workoutsCache[1])>>
            /\ returned' = [returned EXCEPT
                    !["fetchPrograms"] = <<Titled(ProgramDoc, workoutsCache[1])>>,
                    !["fetchPrograms.fetchWorkouts"] = workoutsCache]
       ELSE /\ pc' = [pc EXCEPT !["fetchPrograms"] = "awaiting",
                                !["fetchPrograms.fetchWorkouts"] = "delay"]
            /\ UNCHANGED <<programsCache, returned>>
    /\ UNCHANGED <<doc, workoutsCache, recipesCache, requests, cacheWrites, fetchRest>>

\* the fetchWorkouts of fetchPrograms gets its data: the cache is assigned
\* again, and fetchPrograms goes on to the titles and its own cache
NestedWorkoutsParsed ==
    /\ pc["fetchPrograms.fetchWorkouts"] = "parsing"
    /\ pc' = [pc EXCEPT !["fetchPrograms"] = "done",
                        !["fetchPrograms.fetchWorkouts"] = "done"]
    /\ workoutsCache' = <<WithIds(doc)>>
    /\ cacheWrites' = cacheWrites + 1
    /\ programsCache' = <<Titled(ProgramDoc, WithIds(doc))>>
    /\ returned' = [returned EXCEPT
            !["fetchPrograms"] = <<Titled(ProgramDoc, WithIds(doc))>>,
            !["fetchPrograms.fetchWorkouts"] = <<WithIds(doc)>>]
    /\ UNCHANGED <<doc, recipesCache, requests, fetchRest>>

FetchInit ==
    /\ pc = [p \in Procs |-> "idle"]
    /\ workoutsCache = Null
    /\ recipesCache = Null
    /\ programsCache = Null
    /\ requests = [u \in Urls |-> 0]
    /\ cacheWrites = 0
    /\ returned = [p \in Procs |-> Null]

(***************************************************************************)
(* Navigation (navigateTo).                                                *)
(***************************************************************************)
\* pages with the three kinds of render function: renderHomePage returns
\* without waiting; renderCyclePage sets its flag first and awaits
\* getCycleInsightsAI, which can reject; renderAICoachPage awaits the
\* suggestions inside try/catch and sets its flag last
Pages == {"home", "cycle", "ai-coach"}

Synchronous(pageId) == pageId = "home"

FlagSetFirst(pageId) == pageId \in {"home", "cycle"}

CanReject(pageId) == pageId = "cycle"

\* the part of navigateTo(pageId) that runs before it returns to the event
\* loop: the overlay is shown, the page made current and, unless its flag is
\* set, its render function started; without a wait the overlay is hidden
NavigateToEffect(pageId) ==
    LET render == ~initialized[pageId]
        waits == render /\ ~Synchronous(pageId)
    IN  /\ currentPage' = pageId
        /\ overlay' = waits
        /\ initialized' = IF render /\ FlagSetFirst(pageId)
                          THEN [initialized EXCEPT ![pageId] = TRUE]
                          ELSE initialized
        /\ renderStarts' = IF render THEN [renderStarts EXCEPT ![pageId] = @ + 1]
                           ELSE renderStarts
        /\ firstRun' = IF render /\ renderStarts[pageId] = 0
                       THEN [firstRun EXCEPT ![pageId] =
                                IF waits THEN "running" ELSE "ok"]
                       ELSE firstRun
        /\ navCalls' = Append(navCalls,
               [page |-> pageId,
                run |-> IF render THEN renderStarts[pageId] + 1 ELSE 0,
                st |-> IF waits THEN "rendering" ELSE "done",
                hid |-> ~waits])

\* a click on a navigation link
NavigateTo ==
    /\ Len(navCalls) < MaxNavCalls
    /\ \E pageId \in Pages : NavigateToEffect(pageId)
    /\ UNCHANGED navRest

\* the render function a navigateTo call awaits returns: the flag of a page
\* that sets it last is set, and navigateTo hides the overlay
RenderResolves ==
    /\ \E i \in DOMAIN navCalls :
        /\ navCalls[i].st = "rendering"
        /\ navCalls' = [navCalls EXCEPT ![i].st = "done", ![i].hid = TRUE]
        /\ initialized' = [initialized EXCEPT ![navCalls[i].page] = TRUE]
        /\ firstRun' = IF navCalls[i].run = 1
                       THEN [firstRun EXCEPT ![navCalls[i].page] = "ok"]
                       ELSE firstRun
    /\ overlay' = FALSE
    /\ UNCHANGED <<currentPage, renderStarts, navRest>>

\* the render function a navigateTo call awaits rejects: navigateTo rejects
\* at its await and the rest of its body is not run
RenderRejects ==
    /\ \E i \in DOMAIN navCalls :
        /\ navCalls[i].st = "rendering"
        /\ CanReject(navCalls[i].page)
        /\ navCalls' = [navCalls EXCEPT ![i].st = "failed"]
        /\ firstRun' = IF navCalls[i].run = 1
                       THEN [firstRun EXCEPT ![navCalls[i].page] = "failed"]
                       ELSE firstRun
    /\ UNCHANGED <<overlay, currentPage, initialized, renderStarts, navRest>>

NavInit ==
    /\ navCalls = <<>>
    /\ overlay = FALSE
    /\ currentPage = "home"
    /\ initialized = [p \in Pages |-> FALSE]
    /\ renderStarts = [p \in Pages |-> 0]
    /\ firstRun = [p \in Pages |-> "none"]

(***************************************************************************)
(* Onboarding (onboarding.ts) within initializeAppForUser.                 *)
(***************************************************************************)
\* what the name field can hold, as characters
NameInputs == {<<>>, <<" ">>, <<" ", " ">>, <<"A">>, <<" ", "A">>, <<"A", " ">>, <<"B">>}

RECURSIVE TrimStart(_)
TrimStart(v) == IF v # <<>> /\ Head(v) = " " THEN TrimStart(Tail(v)) ELSE v

RECURSIVE TrimEnd(_)
TrimEnd(v) ==
    IF v # <<>> /\ v[Len(v)] = " " THEN TrimEnd(SubSeq(v, 1, Len(v) - 1)) ELSE v

\* nameInput.value.trim()
Trim(v) == TrimEnd(TrimStart(v))

\* initializeAppForUser once checkAndShowOnboarding has resolved: the
\* achievement is unlocked and navigateTo('home') is called
AfterOnboarding ==
    /\ achievements' = checkAndUnlockAchievement(achievements, "ONBOARDING_COMPLETE")
    /\ NavigateToEffect("home")

\* initializeAppForUser, the data loaded, calls checkAndShowOnboarding
CheckAndShowOnboarding ==
    /\ onboarding = "none"
    /\ IF onboardingCompleted
       THEN /\ onboarding' = "resolved"
            /\ AfterOnboarding
            /\ UNCHANGED <<modalShown, listener>>
       ELSE /\ onboarding' = "pending"
            /\ modalShown' = TRUE
            /\ listener' = TRUE
            /\ UNCHANGED <<achievements, navVars>>
    /\ UNCHANGED <<onboardingCompleted, profileName, nameInput, presses, lastPress,
                   log, tz, phaseInfo, lastSave, listVars, storeVars, fetchVars, coachVars,
                   notifyVars>>

\* the user edits the name field
TypeName ==
    /\ modalShown
    /\ \E v \in NameInputs : v # nameInput /\ nameInput' = v
    /\ UNCHANGED <<onboardingCompleted, profileName, modalShown, listener,
                   onboarding, presses, lastPress,
                   listVars, cycleVars, storeVars, fetchVars, navVars, coachVars, notifyVars>>

\* the user presses Next: the listener, added with { once: true }, is taken
\* off the button by the first press it handles
PressNext ==
    /\ modalShown
    /\ presses < MaxPresses
    /\ presses' = presses + 1
    /\ lastPress' = IF Trim(nameInput) = <<>> THEN "empty" ELSE "name"
    /\ listener' = FALSE
    /\ IF listener /\ Trim(nameInput) # <<>>
       THEN /\ profileName' = <<Trim(nameInput)>>
            /\ onboardingCompleted' = TRUE
            /\ modalShown' = FALSE
            /\ onboarding' = "resolved"
            /\ AfterOnboarding
       ELSE UNCHANGED <<profileName, onboardingCompleted, modalShown, onboarding,
                        achievements, navVars>>
    /\ UNCHANGED <<nameInput, log, tz, phaseInfo, lastSave,
                   listVars, storeVars, fetchVars, coachVars, notifyVars>>

OnboardingInit ==
    /\ onboardingCompleted = FALSE
    /\ profileName = Null
    /\ modalShown = FALSE
    /\ listener = FALSE
    /\ nameInput = <<>>
    /\ onboarding = "none"
    /\ presses = 0
    /\ lastPress = "none"

(***************************************************************************)
(* The AI coach form (askAI).                                              *)
(***************************************************************************)
\* what the prompt field can hold, as characters
Prompts == {<<>>, <<" ">>, <<"q">>}

\* data-prompt of a suggestion chip
ChipPrompt == <<"q">>

\* faulty variant: the submit handler does not read isAIProcessing
MaySubmit_NoFlag(value, processing) == Trim(value) # <<>>

\* input.value.trim() && !state.globalUIState.isAIProcessing
MaySubmit(value, processing) == Trim(value) # <<>> /\ ~processing

\* the submit handler of #ai-coach-form, the prompt field holding value:
\* askAI is called, and with a chat session it sets the flag and sends
SubmitEffect(value) ==
    IF MaySubmit(value, isAIProcessing)
    THEN /\ promptInput' = <<>>
         /\ asks' = asks + 1
         /\ achievements' = checkAndUnlockAchievement(achievements, "AI_CHAT_START")
         /\ IF chat
            THEN /\ isAIProcessing' = TRUE
                 /\ aiRequests' = Append(aiRequests, [stage |-> "sending", chunks |-> 0])
                 /\ lastSubmit' = "sent"
            ELSE /\ lastSubmit' = "offline"
                 /\ UNCHANGED <<isAIProcessing, aiRequests>>
    ELSE /\ promptInput' = value
         /\ lastSubmit' = IF Trim(value) = <<>> THEN "empty" ELSE "refused"
         /\ UNCHANGED <<asks, achievements, isAIProcessing, aiRequests>>

\* the user edits the prompt field, which is disabled while processing
TypePrompt ==
    /\ ~isAIProcessing
    /\ \E v \in Prompts : v # promptInput /\ promptInput' = v
    /\ UNCHANGED <<chat, isAIProcessing, aiRequests, asks, lastSubmit, achievements,
                   coachRest>>

\* the form is submitted
SubmitCoachForm ==
    /\ asks < MaxAsks
    /\ SubmitEffect(promptInput)
    /\ UNCHANGED <<chat, coachRest>>

\* a click on a suggestion chip: the prompt field is set and a submit event
\* is dispatched to the form
ClickChip ==
    /\ asks < MaxAsks
    /\ SubmitEffect(ChipPrompt)
    /\ UNCHANGED <<chat, coachRest>>

\* chat.sendMessageStream resolves with the stream
StreamOpens ==
    /\ \E i \in DOMAIN aiRequests :
        /\ aiRequests[i].stage = "sending"
        /\ aiRequests' = [aiRequests EXCEPT ![i].stage = "streaming"]
    /\ UNCHANGED <<chat, isAIProcessing, promptInput, asks, lastSubmit, achievements,
                   coachRest>>

\* a chunk of the answer arrives
ChunkArrives ==
    /\ \E i \in DOMAIN aiRequests :
        /\ aiRequests[i].stage = "streaming"
        /\ aiRequests[i].chunks < MaxChunks
        /\ aiRequests' = [aiRequests EXCEPT ![i].chunks = @ + 1]
    /\ UNCHANGED <<chat, isAIProcessing, promptInput, asks, lastSubmit, achievements,
                   coachRest>>

\* the stream ends and askAI reaches updateAIStatus("", false)
AnswerEnds ==
    /\ \E i \in DOMAIN aiRequests :
        /\ aiRequests[i].stage = "streaming"
        /\ aiRequests' = SubSeq(aiRequests, 1, i - 1) \o SubSeq(aiRequests, i + 1, Len(aiRequests))
    /\ isAIProcessing' = FALSE
    /\ UNCHANGED <<chat, promptInput, asks, lastSubmit, achievements, coachRest>>

\* sendMessageStream or the stream throws: the catch block of askAI
AnswerFails ==
    /\ \E i \in DOMAIN aiRequests :
        aiRequests' = SubSeq(aiRequests, 1, i - 1) \o SubSeq(aiRequests, i + 1, Len(aiRequests))
    /\ isAIProcessing' = FALSE
    /\ UNCHANGED <<chat, promptInput, asks, lastSubmit, achievements, coachRest>>

CoachInit ==
    /\ chat = TRUE
    /\ isAIProcessing = FALSE
    /\ promptInput = <<>>
    /\ aiRequests = <<>>
    /\ asks = 0
    /\ lastSubmit = "none"

(***************************************************************************)
(* The prayer notification scheduler (notifications.ts).                   *)
(***************************************************************************)
\* Object.keys(PRAYER_NAMES)
PRAYER_NAMES == <<"fajr", "dhuhr", "asr", "maghrib", "isha">>

Prayers == {PRAYER_NAMES[i] : i \in DOMAIN PRAYER_NAMES}

\* the minutes of the day the clock passes through
Minutes == 0 .. MaxMinute

\* a prayer time outside these minutes
Later == MaxMinute + 1

\* the prayer settings: fajr and dhuhr fall in the minutes observed
PrayerSettings ==
    {[enabled |-> e,
      times |-> [p \in Prayers |-> IF p = "fajr" THEN f ELSE IF p = "dhuhr" THEN d ELSE Later]] :
        e \in BOOLEAN, f \in Minutes, d \in Minutes}

\* todayStr
Today == DateAt(0)

\* a run suspended at an await: in Notification.requestPermission() or on
\* the promise sendNotification returned
Run(prayer, copy, at) == [prayer |-> prayer, sentToday |-> copy, at |-> at]

\* no continuation is ready to run (none waits in the microtask queue, and
\* none waits for a permission prompt that has been answered), so the next
\* task (a timer, an event handler) can start
Quiet ==
    /\ \A i \in DOMAIN runs :
        /\ runs[i].at # "return"
        /\ runs[i].at = "permission" => permission = "default"
    /\ periodEnd # "return"
    /\ periodEnd = "permission" => permission = "default"

\* the prayers whose notification is due: settings[prayer] === currentTime
\* && !sentToday.includes(prayer)
Due ==
    {i \in DOMAIN PRAYER_NAMES :
        /\ prayerSettings.times[PRAYER_NAMES[i]] = now
        /\ \A j \in DOMAIN sentToday : sentToday[j] # PRAYER_NAMES[i]}

\* checkAndSendNotifications up to its await: the first due prayer is
\* notified through sendNotification, which shows the notification when
\* permission is granted and asks for permission when it is undecided
checkAndSendNotifications ==
    IF \/ getDayPhase(Today, DefaultCycleData, log, tz).phase = "menstruation"
       \/ ~prayerSettings.enabled
       \/ Due = {}
    THEN UNCHANGED <<runs, sent>>
    ELSE LET prayer == PRAYER_NAMES[CHOOSE i \in Due : \A j \in Due : i <= j]
         IN  /\ runs' = Append(runs, Run(prayer, sentToday,
                                IF permission = "default" THEN "permission" ELSE "return"))
             /\ sent' = IF permission = "granted"
                        THEN [sent EXCEPT ![prayer] = @ + 1] ELSE sent

\* clearInterval(notificationIntervalId)
Cleared ==
    IF notificationIntervalId = Null THEN intervals
    ELSE intervals \ {notificationIntervalId[1]}

\* the body of startNotificationScheduler
StartEffect ==
    /\ restarts' = restarts + 1
    /\ IF ~prayerSettings.enabled
       THEN /\ intervals' = Cleared
            /\ UNCHANGED <<notificationIntervalId, ticked, runs, sent>>
       ELSE /\ checkAndSendNotifications
            /\ notificationIntervalId' = <<restarts + 1>>
            /\ intervals' = Cleared \cup {restarts + 1}
            /\ ticked' = ticked \cup {restarts + 1}

\* startNotificationScheduler(), called from an event handler
StartNotificationScheduler ==
    /\ Quiet
    /\ restarts < MaxRestarts
    /\ StartEffect
    /\ UNCHANGED <<prayerSettings, permission, now, sentToday, periodEnd, notifyRest>>

\* stopNotificationScheduler()
StopNotificationScheduler ==
    /\ Quiet
    /\ notificationIntervalId # Null
    /\ intervals' = Cleared
    /\ notificationIntervalId' = Null
    /\ UNCHANGED <<ticked, prayerSettings, permission, now, sentToday, runs, periodEnd,
                   sent, restarts, notifyRest>>

\* handlePeriodEnd() up to its await of sendNotification
HandlePeriodEnd ==
    /\ Quiet
    /\ restarts < MaxRestarts
    /\ periodEnd = "idle"
    /\ periodEnd' = IF permission = "default" THEN "permission" ELSE "return"
    /\ UNCHANGED <<notificationIntervalId, intervals, ticked, prayerSettings, permission,
                   now, sentToday, runs, sent, restarts, notifyRest>>

\* handlePeriodEnd() after its await: the scheduler is restarted
PeriodEndResumes ==
    /\ \/ periodEnd = "return"
       \/ periodEnd = "permission" /\ permission # "default"
    /\ periodEnd' = "idle"
    /\ StartEffect
    /\ UNCHANGED <<prayerSettings, permission, now, sentToday, notifyRest>>

\* a minute passes
MinutePasses ==
    /\ Quiet
    /\ now < MaxMinute
    /\ now' = now + 1
    /\ ticked' = {}
    /\ UNCHANGED <<notificationIntervalId, intervals, prayerSettings, permission, sentToday,
                   runs, periodEnd, sent, restarts, notifyRest>>

\* a running interval fires: once in a minute, from the minute after it was set
IntervalFires ==
    /\ Quiet
    /\ \E id \in intervals \ ticked : ticked' = ticked \cup {id}
    /\ checkAndSendNotifications
    /\ UNCHANGED <<notificationIntervalId, intervals, prayerSettings, permission, now,
                   sentToday, periodEnd, restarts, notifyRest>>

\* the user answers the permission prompt
UserAnswers ==
    /\ permission = "default"
    /\ \/ periodEnd = "permission"
       \/ \E i \in DOMAIN runs : runs[i].at = "permission"
    /\ permission' \in {"granted", "denied"}
    /\ UNCHANGED <<notificationIntervalId, intervals, ticked, prayerSettings, now, sentToday,
                   runs, periodEnd, sent, restarts, notifyRest>>

\* sendNotification after await Notification.requestPermission(): with
\* permission granted the notification is shown
PermissionResolves ==
    /\ permission # "default"
    /\ \E i \in DOMAIN runs :
        /\ runs[i].at = "permission"
        /\ runs' = [runs EXCEPT ![i].at = "return"]
        /\ sent' = IF permission = "granted"
                   THEN [sent EXCEPT ![runs[i].prayer] = @ + 1] ELSE sent
    /\ UNCHANGED <<notificationIntervalId, intervals, ticked, prayerSettings, permission, now,
                   sentToday, periodEnd, restarts, notifyRest>>

\* checkAndSendNotifications after its await: sentToday.push(prayer) on the
\* array read before the await, and sessionStorage.setItem
RunResumes ==
    /\ \E i \in DOMAIN runs :
        /\ runs[i].at = "return"
        /\ sentToday' = Append(runs[i].sentToday, runs[i].prayer)
        /\ runs' = SubSeq(runs, 1, i - 1) \o SubSeq(runs, i + 1, Len(runs))
    /\ UNCHANGED <<notificationIntervalId, intervals, ticked, prayerSettings, permission, now,
                   periodEnd, sent, restarts, notifyRest>>

NotifyInit ==
    /\ notificationIntervalId = Null
    /\ intervals = {}
    /\ ticked = {}
    /\ prayerSettings = [enabled |-> FALSE, times |-> [p \in Prayers |-> Later]]
    /\ permission = "default"
    /\ now = 0
    /\ sentToday = <<>>
    /\ runs = <<>>
    /\ periodEnd = "idle"
    /\ sent = [p \in Prayers |-> 0]
    /\ restarts = 0

AsyncInit ==
    /\ doc = <<>>
    /\ FetchInit
    /\ NavInit
    /\ OnboardingInit
    /\ CoachInit
    /\ NotifyInit

StoreInit ==
    /\ settings = Null
    /\ completedWorkouts = <<>>
    /\ corrupt = {}
    /\ loaded = NoLoad

\* what a browser can hold in localStorage when the application starts
StoredLogs ==
    {<<>>, <<[date |-> DateAt(0), period |-> "start", symptoms |-> <<>>,
              mood |-> "", notes |-> ""]>>}

StoredSettings == {Null} \cup {<<c>> : c \in CycleConfigs}

StoredWorkouts == {<<>>, <<[workoutId |-> 0]>>}

StartupInit ==
    /\ ListInit
    /\ log \in StoredLogs
    /\ achievements = IF log = <<>> THEN {} ELSE {"CYCLE_LOG_FIRST"}
    /\ tz \in TimeZones
    /\ phaseInfo = NoCall
    /\ lastSave = NoSave
    /\ settings \in StoredSettings
    /\ completedWorkouts \in StoredWorkouts
    /\ corrupt \in SUBSET StoreKeys
    /\ loaded = NoLoad
    /\ AsyncInit

Init == ListInit /\ CycleInit /\ StoreInit /\ AsyncInit

\* the list container fed with lists of pairwise distinct keys
Next == RenderList \/ ShowSkeleton

Spec == Init /\ [][Next]_vars

\* the list container fed with any list, duplicate keys included
NextDup == RenderList \/ RenderListDup \/ ShowSkeleton

SpecDup == Init /\ [][NextDup]_vars

\* the list container fed with items whose data changes between calls
NextEdited == RenderListEdited

SpecEdited == Init /\ [][NextEdited]_vars

\* the cycle log and the phase calculator
NextCycle == SaveCycleLogEntry \/ GetDayPhase

SpecCycle == Init /\ [][NextCycle]_vars

\* the cycle log form alone, submitted again and again
NextSave == SaveCycleLogEntry

SpecSave == Init /\ [][NextSave]_vars

\* sequences of pairwise distinct log dates: the key orders a log can have
DateSeqs ==
    {ds \in UNION {[1 .. n -> LogDates] : n \in 0 .. Cardinality(LogDates)} :
        \A i, j \in DOMAIN ds : ds[i] = ds[j] => i = j}

\* logs the form can have written: each date saved with a period marker,
\* the dates in any order of insertion
MarkedLogs ==
    UNION {{[i \in DOMAIN ds |->
                [date |-> ds[i], period |-> ps[i], symptoms |-> <<>>,
                 mood |-> "", notes |-> ""]] :
             ps \in [DOMAIN ds -> {"start", "flow"}]} : ds \in DateSeqs}

PhaseInit ==
    /\ ListInit
    /\ StoreInit
    /\ log \in MarkedLogs
    /\ achievements = IF log = <<>> THEN {} ELSE {"CYCLE_LOG_FIRST"}
    /\ tz \in TimeZones
    /\ phaseInfo = NoCall
    /\ lastSave = NoSave
    /\ AsyncInit

\* the phase calculator called on a stored log
NextPhase == GetDayPhase

SpecPhase == PhaseInit /\ [][NextPhase]_vars

\* the initial load, for any content of workouts.json
LoadInit ==
    /\ ListInit
    /\ CycleInit
    /\ StoreInit
    /\ doc \in WorkoutDocs
    /\ FetchInit
    /\ NavInit
    /\ OnboardingInit
    /\ CoachInit
    /\ NotifyInit

NextLoad ==
    \/ LoadInitialAppData
    \/ \E p \in Procs : TimerFires(p)
    \/ \E p \in Procs : ResponseArrives(p)
    \/ WorkoutsParsed
    \/ RecipesParsed
    \/ ProgramsParsed
    \/ NestedWorkoutsParsed

SpecLoad == LoadInit /\ [][NextLoad]_vars

\* navigation by clicks on the navigation links
NextNav == NavigateTo \/ RenderResolves \/ RenderRejects

SpecNav == Init /\ [][NextNav]_vars

\* the onboarding of a new user
NextOnboarding == CheckAndShowOnboarding \/ TypeName \/ PressNext

\* a new user, or a user who completed the onboarding in an earlier session
OnboardingStart ==
    /\ ListInit
    /\ CycleInit
    /\ StoreInit
    /\ doc = <<>>
    /\ FetchInit
    /\ NavInit
    /\ CoachInit
    /\ NotifyInit
    /\ onboardingCompleted \in BOOLEAN
    /\ profileName = IF onboardingCompleted THEN <<<<"A">>>> ELSE Null
    /\ modalShown = FALSE
    /\ listener = FALSE
    /\ nameInput = <<>>
    /\ onboarding = "none"
    /\ presses = 0
    /\ lastPress = "none"

SpecOnboarding == OnboardingStart /\ [][NextOnboarding]_vars

\* the AI coach page, with or without a chat session
CoachStart ==
    /\ ListInit
    /\ CycleInit
    /\ StoreInit
    /\ doc = <<>>
    /\ FetchInit
    /\ NavInit
    /\ OnboardingInit
    /\ NotifyInit
    /\ chat \in BOOLEAN
    /\ isAIProcessing = FALSE
    /\ promptInput = <<>>
    /\ aiRequests = <<>>
    /\ asks = 0
    /\ lastSubmit = "none"

NextCoach ==
    \/ TypePrompt
    \/ SubmitCoachForm
    \/ ClickChip
    \/ StreamOpens
    \/ ChunkArrives
    \/ AnswerEnds
    \/ AnswerFails

SpecCoach == CoachStart /\ [][NextCoach]_vars

\* the scheduler with the settings, the permission and the cycle log the
\* browser can hold when the page is opened
NotifyStart ==
    /\ ListInit
    /\ StoreInit
    /\ log \in StoredLogs
    /\ achievements = IF log = <<>> THEN {} ELSE {"CYCLE_LOG_FIRST"}
    /\ tz = "UTC"
    /\ phaseInfo = NoCall
    /\ lastSave = NoSave
    /\ doc = <<>>
    /\ FetchInit
    /\ NavInit
    /\ OnboardingInit
    /\ CoachInit
    /\ notificationIntervalId = Null
    /\ intervals = {}
    /\ ticked = {}
    /\ prayerSettings \in PrayerSettings
    /\ permission \in {"granted", "default", "denied"}
    /\ now = 0
    /\ sentToday = <<>>
    /\ runs = <<>>
    /\ periodEnd = "idle"
    /\ sent = [p \in Prayers |-> 0]
    /\ restarts = 0

NextNotify ==
    \/ StartNotificationScheduler
    \/ StopNotificationScheduler
    \/ HandlePeriodEnd
    \/ PeriodEndResumes
    \/ MinutePasses
    \/ IntervalFires
    \/ UserAnswers
    \/ PermissionResolves
    \/ RunResumes

SpecNotify == NotifyStart /\ [][NextNotify]_vars

\* the loads from localStorage, from any stored content
NextStore == GetCompletedWorkouts \/ GetCycleData \/ GetAllLogs

SpecStore == StartupInit /\ [][NextStore]_vars

(***************************************************************************)
(* Properties of renderList.                                               *)
(***************************************************************************)
RECURSIVE KeyedKeys(_)
\* the data-id values of the keyed children, in document order
KeyedKeys(c) ==
    IF c = <<>> THEN <<>>
    ELSE IF Head(c).key = NoKey THEN KeyedKeys(Tail(c))
         ELSE <<Head(c).key>> \o KeyedKeys(Tail(c))

KeyStrs(its) == [i \in DOMAIN its |-> KeyStr(its[i].key)]

Range(s) == {s[i] : i \in DOMAIN s}

NodesOfKey(c, k) == {c[i] : i \in {j \in DOMAIN c : c[j].key = KeyStr(k)}}

CountOfKey(c, k) == Cardinality({j \in DOMAIN c : c[j].key = KeyStr(k)})

TwoCalls == lastOp = "renderList" /\ prevOp = "renderList"

\* C1: after a renderList call with a non-empty item list the keyed children of
\* the container, read in order, carry exactly the keys of the item list in the
\* list's order.
Thm_C1 ==
    (lastOp = "renderList" /\ items # <<>>) => KeyedKeys(container) = KeyStrs(items)

\* C1 witness: a call that created a node and moved a retained one.
Wit_C1 ==
    /\ lastOp = "renderList"
    /\ ops.created # {}
    /\ ops.moved # {}
    /\ Len(prevContainer) >= 2

\* C2: a key contained in the item lists of two successive renderList calls
\* keeps its node: after the second call the key's node is the node it had
\* after the first call.
Thm_C2 ==
    TwoCalls =>
        \A k \in Range(prevKeys) \cap Range(KeysOf(items)) :
            /\ NodesOfKey(container, k) # {}
            /\ NodesOfKey(container, k) = NodesOfKey(prevContainer, k)

\* C2 witness: two successive calls share a key whose node had to be moved.
Wit_C2 ==
    /\ TwoCalls
    /\ \E k \in Range(prevKeys) \cap Range(KeysOf(items)) :
           \E n \in NodesOfKey(container, k) : n.id \in ops.moved

\* C3: a key of call N's item list that is absent from call N+1's item list
\* has no node in the container after call N+1.
Thm_C3 ==
    TwoCalls =>
        \A k \in Range(prevKeys) \ Range(KeysOf(items)) :
            NodesOfKey(container, k) = {}

\* C3 witness: call N+1 has a non-empty list, keeps one key of call N and
\* drops another.
Wit_C3 ==
    /\ TwoCalls
    /\ items # <<>>
    /\ Range(prevKeys) \ Range(KeysOf(items)) # {}
    /\ Range(prevKeys) \cap Range(KeysOf(items)) # {}
    /\ ops.removed # {}

\* C4: after renderList with an empty item list the container holds exactly
\* the empty markup; no child it had before remains.
Thm_C4 ==
    (lastOp = "renderList" /\ items = <<>>) =>
        /\ Len(container) = 1
        /\ container[1].kind = "empty"
        /\ container[1].key = NoKey
        /\ NodeIds(container) \cap NodeIds(prevContainer) = {}

\* C4 witness: the empty call follows a call that rendered several items.
Wit_C4 ==
    /\ lastOp = "renderList"
    /\ items = <<>>
    /\ prevOp = "renderList"
    /\ Len(KeyedKeys(prevContainer)) >= 2

\* C5 as stated: the second of two successive calls with the same item list
\* creates, removes and moves no node and leaves the container unchanged.
Cex_C5 ==
    (TwoCalls /\ KeysOf(items) = prevKeys) =>
        (ops = NoOps /\ container = prevContainer)

\* C5 amended: the second of two successive calls with the same non-empty
\* item list creates, removes and moves no node and leaves the container
\* unchanged.
Thm_C5 ==
    (TwoCalls /\ KeysOf(items) = prevKeys /\ items # <<>>) =>
        (ops = NoOps /\ container = prevContainer)

\* C5 witness: the same list of several items was rendered twice in a row.
Wit_C5 ==
    /\ TwoCalls
    /\ KeysOf(items) = prevKeys
    /\ Len(items) >= 2

\* C6: fed with lists of pairwise distinct keys from an empty container, the
\* container holds at most one child per key.
Thm_C6 == \A k \in Keys : CountOfKey(container, k) <= 1

\* C6 witness: after two calls the container holds a node for every key, some
\* created and some moved by the last call.
Wit_C6 ==
    /\ TwoCalls
    /\ \A k \in Keys : CountOfKey(container, k) = 1
    /\ ops.created # {}
    /\ ops.moved # {}

\* C7 as stated: a renderList call whose item list repeats a key renders
\* nothing, and the container never has two nodes for one key.
Cex_C7 ==
    /\ (lastOp = "renderList" /\ ~UniqueKeys(items)) =>
           (ops = NoOps /\ container = prevContainer)
    /\ \A k \in Keys : CountOfKey(container, k) <= 1

(***************************************************************************)
(* Properties of getDayPhase.                                              *)
(***************************************************************************)
Unknown == PhaseOf("unknown", Null)

\* the dates whose entry is marked period=start
StartDates(allLogs) ==
    {allLogs[i].date : i \in {j \in DOMAIN allLogs : allLogs[j].period = "start"}}

\* the period marker the log holds for a date
MarkerOf(allLogs, date) ==
    IF HasKey(allLogs, date) THEN EntryOf(allLogs, date).period ELSE NoPeriod

\* C8: when no entry of the log is marked period=start, getDayPhase returns
\* phase unknown and day of cycle null for every target date and configuration.
Thm_C8 ==
    (phaseInfo.called /\ StartDates(log) = {}) => phaseInfo.result = Unknown

\* C8 witness: the log has entries, the target date itself carries a flow or
\* end marker, none is a start.
Wit_C8 ==
    /\ phaseInfo.called
    /\ StartDates(log) = {}
    /\ Len(log) >= 2
    /\ MarkerOf(log, phaseInfo.target) \in {"flow", "end"}
    /\ \E i \in DOMAIN log : log[i].symptoms # <<>>

\* C9 as stated: whenever the entry of the target date carries a period
\* marker, getDayPhase returns phase menstruation.
Cex_C9 ==
    (phaseInfo.called /\ MarkerOf(log, phaseInfo.target) # NoPeriod) =>
        phaseInfo.result.phase = "menstruation"

\* the log has a period=start and no period=start is later than the date
AnchoredAt(allLogs, date) ==
    /\ StartDates(allLogs) # {}
    /\ \A s \in StartDates(allLogs) : DayNumber(s) <= DayNumber(date)

\* C9 amended: whenever the entry of the target date carries a period marker
\* and the most recent period=start of the log is on or before the target
\* date, getDayPhase returns phase menstruation, whatever the day count.
Thm_C9 ==
    (/\ phaseInfo.called
     /\ MarkerOf(log, phaseInfo.target) # NoPeriod
     /\ AnchoredAt(log, phaseInfo.target)) =>
        phaseInfo.result.phase = "menstruation"

\* C9 witness: a flow or end marker on a day past the configured cycle length
\* is reported as menstruation.
Wit_C9 ==
    /\ phaseInfo.called
    /\ MarkerOf(log, phaseInfo.target) \in {"flow", "end"}
    /\ phaseInfo.result.phase = "menstruation"
    /\ phaseInfo.result.dayOfCycle # Null
    /\ phaseInfo.result.dayOfCycle[1] > phaseInfo.cycleData.cycleLength

\* the period=start dates on or before a date
StartsUpTo(allLogs, date) ==
    {s \in StartDates(allLogs) : DayNumber(s) <= DayNumber(date)}

\* the latest of a non-empty set of dates
LatestOf(S) == CHOOSE s \in S : \A t \in S : DayNumber(t) <= DayNumber(s)

\* C10 as stated: day 1 of the cycle is the latest period=start on or before
\* the target date; the result is unknown with day null only when there is none.
Cex_C10 ==
    phaseInfo.called =>
        LET S == StartsUpTo(log, phaseInfo.target)
        IN  IF S = {} THEN phaseInfo.result = Unknown
            ELSE phaseInfo.result.dayOfCycle =
                     <<DayNumber(phaseInfo.target) - DayNumber(LatestOf(S)) + 1>>

\* the day of cycle of a date: 1 on the most recent period=start of the log
DayOfCycle(allLogs, date) ==
    DayNumber(date) - DayNumber(LatestOf(StartDates(allLogs))) + 1

\* cycleLength / 2 rounded to the nearest integer, halves up
HalfCycle(cycleData) ==
    IF cycleData.cycleLength % 2 = 0 THEN cycleData.cycleLength \div 2
    ELSE (cycleData.cycleLength + 1) \div 2

\* the phase of day d of the cycle by the thresholds of the configuration
PhaseByDay(cycleData, d) ==
    IF d <= cycleData.periodLength THEN "menstruation"
    ELSE IF d <= HalfCycle(cycleData) - 2 THEN "follicular"
    ELSE IF d <= HalfCycle(cycleData) + 2 THEN "ovulation"
    ELSE IF d <= cycleData.cycleLength THEN "luteal"
    ELSE "unknown"

\* the call had a target date without a period marker on day >= 1 of the cycle
PlainDay ==
    /\ phaseInfo.called
    /\ MarkerOf(log, phaseInfo.target) = NoPeriod
    /\ StartDates(log) # {}
    /\ DayOfCycle(log, phaseInfo.target) >= 1

\* C11: for a target date without a period marker on day d >= 1 of the cycle
\* the phase is menstruation up to periodLength, follicular up to
\* round(cycleLength/2) - 2, ovulation up to round(cycleLength/2) + 2, luteal
\* up to cycleLength and unknown beyond, halves rounding up.
Thm_C11 ==
    PlainDay =>
        phaseInfo.result.phase =
            PhaseByDay(phaseInfo.cycleData, DayOfCycle(log, phaseInfo.target))

\* C11 witness: cycle 28, period 5, start 10 days before the target: day 11,
\* follicular.
Wit_C11 ==
    /\ PlainDay
    /\ phaseInfo.cycleData = DefaultCycleData
    /\ DayOfCycle(log, phaseInfo.target) = 11
    /\ phaseInfo.result = PhaseOf("follicular", <<11>>)

\* the call had a configuration with 0 < periodLength <= cycleLength and a
\* target date without a period marker on a day beyond cycleLength
Overrun ==
    /\ PlainDay
    /\ 0 < phaseInfo.cycleData.periodLength
    /\ phaseInfo.cycleData.periodLength <= phaseInfo.cycleData.cycleLength
    /\ DayOfCycle(log, phaseInfo.target) > phaseInfo.cycleData.cycleLength

\* C12 as stated: with 0 < periodLength <= cycleLength, a target date without
\* a period marker whose day of cycle exceeds cycleLength has phase unknown.
Cex_C12 ==
    Overrun => phaseInfo.result.phase = "unknown"

\* C12: with 0 < periodLength <= cycleLength and an ovulation window that
\* ends within the cycle (round(cycleLength/2) + 2 <= cycleLength), a target
\* date without a period marker whose day of cycle exceeds cycleLength has
\* phase unknown; with a shorter cycle the days up to round(cycleLength/2) + 2
\* are ovulation and only the days beyond are unknown.
Thm_C12 ==
    Overrun =>
        IF DayOfCycle(log, phaseInfo.target) > HalfCycle(phaseInfo.cycleData) + 2
        THEN phaseInfo.result.phase = "unknown"
        ELSE /\ HalfCycle(phaseInfo.cycleData) + 2 > phaseInfo.cycleData.cycleLength
             /\ phaseInfo.result.phase = "ovulation"

\* C12 witness: the cycle has overrun its length and the call reports the
\* day of cycle with phase unknown.
Wit_C12 ==
    /\ PlainDay
    /\ phaseInfo.cycleData.periodLength <= phaseInfo.cycleData.cycleLength
    /\ phaseInfo.result.phase = "unknown"
    /\ phaseInfo.result.dayOfCycle # Null
    /\ phaseInfo.result.dayOfCycle[1] > phaseInfo.cycleData.cycleLength

\* C13: dayOfCycle is the number of whole days from the most recent start to
\* the target date plus one; when that is <= 0 the result is unknown with day
\* null, so a returned day of cycle is null or an integer >= 1.
Thm_C13 ==
    phaseInfo.called =>
        /\ IF StartDates(log) = {} \/ DayOfCycle(log, phaseInfo.target) <= 0
           THEN phaseInfo.result = Unknown
           ELSE phaseInfo.result.dayOfCycle = <<DayOfCycle(log, phaseInfo.target)>>
        /\ phaseInfo.result.dayOfCycle # Null => phaseInfo.result.dayOfCycle[1] >= 1

\* C13 witness: the target date is the day before the most recent start.
Wit_C13 ==
    /\ phaseInfo.called
    /\ StartDates(log) # {}
    /\ DayOfCycle(log, phaseInfo.target) = 0
    /\ phaseInfo.result = Unknown

\* C14: getDayPhase leaves the log and the configuration as they were handed
\* to it, and its result is decided by the target date, the configuration and
\* the log alone: a call in any other time zone returns the same result.
Thm_C14 ==
    phaseInfo.called =>
        /\ log = phaseInfo.allLogs
        /\ \A zone \in TimeZones :
               getDayPhase(phaseInfo.target, phaseInfo.cycleData,
                           phaseInfo.allLogs, zone) = phaseInfo.result

\* C14 witness: a call in America/New_York whose day count spans the night
\* of 10 March 2024, which has 23 hours there.
Wit_C14 ==
    /\ phaseInfo.called
    /\ tz = "America/New_York"
    /\ phaseInfo.result.dayOfCycle # Null
    /\ UtcOffset(tz, phaseInfo.target)
           # UtcOffset(tz, LatestOf(StartDates(log)))

\* the fields of a stored entry that the form supplies
FieldsOf(stored) ==
    [period |-> stored.period, symptoms |-> stored.symptoms,
     mood |-> stored.mood, notes |-> stored.notes]

\* C15: after any sequence of saveCycleLogEntry calls on an empty log, no
\* stored entry is empty (no period, no symptoms, no mood, no notes), and a
\* save of an empty entry for a date leaves the log without that date.
Thm_C15 ==
    /\ \A i \in DOMAIN log : ~IsEmptyEntry(log[i])
    /\ (lastSave.called /\ IsEmptyEntry(lastSave.entry)) =>
           ~HasKey(log, lastSave.date)

\* C15 witness: an empty entry was saved for a date that had an entry, and
\* the date is gone from the log.
Wit_C15 ==
    /\ lastSave.called
    /\ IsEmptyEntry(lastSave.entry)
    /\ HasKey(lastSave.allLogs, lastSave.date)
    /\ ~HasKey(log, lastSave.date)

\* C16: after saveCycleLogEntry(date, e) with e not empty, the entry stored
\* for date has the fields of e and nothing of the entry it replaces, and the
\* entries of the other dates are as before.
Thm_C16 ==
    (lastSave.called /\ ~IsEmptyEntry(lastSave.entry)) =>
        /\ HasKey(log, lastSave.date)
        /\ FieldsOf(EntryOf(log, lastSave.date)) = lastSave.entry
        /\ DeleteKey(log, lastSave.date) = DeleteKey(lastSave.allLogs, lastSave.date)

\* C16 witness: the date had a period marker, the saved entry has symptoms
\* only, and the stored entry has no marker.
Wit_C16 ==
    /\ lastSave.called
    /\ HasKey(lastSave.allLogs, lastSave.date)
    /\ EntryOf(lastSave.allLogs, lastSave.date).period # NoPeriod
    /\ lastSave.entry.period = NoPeriod
    /\ ~IsEmptyEntry(lastSave.entry)
    /\ Len(log) > 1
    /\ EntryOf(log, lastSave.date).period = NoPeriod

\* the last load read a cycle key whose stored text is not valid JSON
CorruptCycleLoad ==
    /\ loaded.fn \in {"getAllLogs", "getCycleData"}
    /\ loaded.raw = "invalid"

\* C17 as stated: a load of the cycle log or the cycle settings from text
\* that is not valid JSON throws nothing, removes the key and returns the
\* empty log or the default configuration (28, 5).
Cex_C17 ==
    CorruptCycleLoad =>
        /\ ~loaded.threw
        /\ corrupt \cap {CYCLE_LOG_DATA_KEY, CYCLE_SETTINGS_KEY} = {}
        /\ loaded.value = IF loaded.fn = "getAllLogs" THEN <<>> ELSE DefaultCycleData

\* the last operation was a renderList call with a non-empty item list
NonEmptyCall == lastOp = "renderList" /\ items # <<>>

\* C18 as stated: after renderList with a non-empty item list the children of
\* the container are exactly the nodes of the list, one per item; no empty
\* markup and no skeleton placeholder is left.
Cex_C18 ==
    NonEmptyCall =>
        /\ Len(container) = Len(items)
        /\ \A i \in DOMAIN container : container[i].kind = "item"

\* positions in the new item list of the keys of the retained nodes, read in
\* the order the nodes had in the container before the call
RetainedRanks(c, its) ==
    LET kept == KeyedKeys(RemoveUnused(c, its))
    IN  [i \in DOMAIN kept |->
            CHOOSE j \in DOMAIN its : KeyStr(its[j].key) = kept[i]]

Increasing(r, S) == \A i, j \in S : i < j => r[i] < r[j]

\* the fewest relocations that bring the retained nodes into the new order:
\* all but a longest run of nodes already in the new relative order
MinMoves(c, its) ==
    LET r == RetainedRanks(c, its)
        sizes == {Cardinality(S) : S \in {T \in SUBSET DOMAIN r : Increasing(r, T)}}
    IN  Len(r) - (CHOOSE n \in sizes : \A m \in sizes : m <= n)

TwoNonEmptyCalls == TwoCalls /\ items # <<>> /\ prevKeys # <<>>

\* the items of the last call whose key the call before had too
Persisting == {i \in DOMAIN items : items[i].key \in Range(prevKeys)}

\* C20: when a key is in the non-empty item lists of two successive
\* renderList calls, the second call does not render its item (no node is
\* created for it) and the key's node shows after the call the content it
\* showed before, whatever the data of the item is now.
Thm_C20 ==
    TwoNonEmptyCalls =>
        \A i \in Persisting :
            /\ NodesOfKey(container, items[i].key) # {}
            /\ \A n \in NodesOfKey(container, items[i].key) :
                   /\ n.id \notin ops.created
                   /\ \E m \in NodesOfKey(prevContainer, items[i].key) :
                          m.id = n.id /\ m.content = n.content

\* C20 witness: a key persists with changed data and its node shows the data
\* it was first rendered with.
Wit_C20 ==
    /\ TwoNonEmptyCalls
    /\ \E i \in Persisting :
           \E n \in NodesOfKey(container, items[i].key) :
               n.content # items[i].payload

\* the logs with the entries of allLogs in another order of insertion
Reorderings(allLogs) ==
    {[i \in DOMAIN allLogs |-> allLogs[f[i]]] : f \in Permutations(DOMAIN allLogs)}

\* C21: the result of getDayPhase depends on which dates carry which entries
\* and not on the order of insertion: the call returns the same result for
\* every reordering of the log, the most recent period=start being the latest
\* by calendar date.
Thm_C21 ==
    phaseInfo.called =>
        /\ \A other \in Reorderings(phaseInfo.allLogs) :
               getDayPhase(phaseInfo.target, phaseInfo.cycleData, other, tz)
                   = phaseInfo.result
        /\ phaseInfo.result.dayOfCycle # Null =>
               phaseInfo.result.dayOfCycle[1] = DayOfCycle(log, phaseInfo.target)

\* C21 witness: two starts, the later one inserted first, and a day of cycle
\* counted from the later one.
Wit_C21 ==
    /\ phaseInfo.called
    /\ Len(log) >= 2
    /\ log[1].period = "start"
    /\ log[Len(log)].period = "start"
    /\ DayNumber(log[1].date) > DayNumber(log[Len(log)].date)
    /\ phaseInfo.result.dayOfCycle # Null
    /\ phaseInfo.result.dayOfCycle[1] = DayNumber(phaseInfo.target) - DayNumber(log[1].date) + 1

\* the place of a phase in the order menstruation, follicular, ovulation,
\* luteal, unknown
PhaseRank(phase) ==
    CASE phase = "menstruation" -> 1
      [] phase = "follicular" -> 2
      [] phase = "ovulation" -> 3
      [] phase = "luteal" -> 4
      [] phase = "unknown" -> 5

\* the dates after the target of the call whose own entries carry no period
\* marker
LaterPlainDates ==
    {t \in Dates : /\ DayNumber(t) > DayNumber(phaseInfo.target)
                   /\ MarkerOf(log, t) = NoPeriod}

\* C30: with the configuration and the log of a call on a date without a
\* period marker on day >= 1 of the cycle, every later date without a period
\* marker has a phase that is not earlier in the order menstruation,
\* follicular, ovulation, luteal, unknown.
Thm_C30 ==
    PlainDay =>
        \A t \in LaterPlainDates :
            PhaseRank(getDayPhase(t, phaseInfo.cycleData, log, tz).phase)
                >= PhaseRank(phaseInfo.result.phase)

\* C30 witness: a call returned ovulation, and later dates of the same cycle
\* are luteal and unknown.
Wit_C30 ==
    /\ PlainDay
    /\ phaseInfo.result.phase = "ovulation"
    /\ \E t, u \in LaterPlainDates :
           /\ getDayPhase(t, phaseInfo.cycleData, log, tz).phase = "luteal"
           /\ getDayPhase(u, phaseInfo.cycleData, log, tz).phase = "unknown"

\* C22 as stated: during the initial load workouts.json is requested at most
\* once and the workouts cache is assigned at most once.
Cex_C22 ==
    /\ requests["workouts.json"] <= 1
    /\ cacheWrites <= 1

\* the ids of the workouts a list holds, in order
IdsOf(workouts) == [i \in DOMAIN workouts |-> workouts[i].id]

Distinct(s) == \A i, j \in DOMAIN s : s[i] = s[j] => i = j

\* the ids workouts.json gives explicitly are pairwise distinct
ExplicitIdsDistinct ==
    \A i, j \in DOMAIN doc :
        (doc[i].id # Null /\ doc[i].id = doc[j].id) => i = j

\* C23 as stated: when the ids workouts.json gives explicitly are pairwise
\* distinct, the workouts a resolved fetchWorkouts returns have pairwise
\* distinct ids.
Cex_C23 ==
    ExplicitIdsDistinct =>
        \A p \in WorkoutFetches :
            (pc[p] = "done" /\ returned[p] # Null) => Distinct(IdsOf(returned[p][1]))

\* C25 as stated: every navigateTo call that has ended, by returning or by a
\* failed render function, has hidden the loading overlay it showed.
Cex_C25 ==
    \A i \in DOMAIN navCalls :
        navCalls[i].st \in {"done", "failed"} => navCalls[i].hid

\* C26 as stated: while a navigateTo call awaits its render function the
\* loading overlay is displayed.
Cex_C26 ==
    (\E i \in DOMAIN navCalls : navCalls[i].st = "rendering") => overlay

\* C27 as stated: a render function whose first run has completed
\* successfully was started once.
Cex_C27 ==
    \A pageId \in Pages : firstRun[pageId] = "ok" => renderStarts[pageId] <= 1

\* C24 as stated: once the user has pressed Next with a non-empty name, the
\* promise of checkAndShowOnboarding is resolved and the application is on
\* the home page, however often Next was pressed with an empty name before.
Cex_C24 ==
    lastPress = "name" =>
        /\ onboarding = "resolved"
        /\ navCalls # <<>>
        /\ currentPage = "home"

\* C28: at most one askAI request is in flight, and isAIProcessing is true
\* exactly while one is: a form submit or a chip click in that time starts no
\* other.
Thm_C28 ==
    /\ Len(aiRequests) <= 1
    /\ isAIProcessing <=> Len(aiRequests) = 1

\* C28 witness: a chip was clicked while a request was streaming, and no
\* request was started for it.
Wit_C28 ==
    /\ lastSubmit = "refused"
    /\ isAIProcessing
    /\ Len(aiRequests) = 1
    /\ aiRequests[1].stage = "streaming"
    /\ promptInput = ChipPrompt

\* C29 as stated: for the day and each prayer at most one prayer notification
\* is shown, whatever the ticks, the restarts of the scheduler and the
\* overlapping runs of checkAndSendNotifications.
Cex_C29 ==
    \A p \in Prayers : sent[p] <= 1

====
